---------------------------- MODULE Spec2Model ----------------------------
(***************************************************************************)
(* Extraction core of the Facebook Marketplace scraper (src/scraper.py).   *)
(*                                                                         *)
(* Two operations are modelled, one call per behaviour:                    *)
(*   op = "search"  : extract_listings_from_page_async / _sync, the loop   *)
(*                    over the anchors of a rendered search page, with     *)
(*                    _parse_listing_text unrolled one line per step;      *)
(*   op = "details" : the text parsing of get_listing_details_async        *)
(*                    (Phase A, the search for "Details", Phase B, the     *)
(*                    all-lines fallback), one loop iteration per step.    *)
(*                                                                         *)
(* A Python str is a sequence of one-character strings, so that the        *)
(* regular expressions, len(), startswith(), "in", strip() and split()     *)
(* are computed on the characters.  Indices are 0-based as in the source:  *)
(* At(s, i) is s[i].  The empty str is <<>>, Python's None is None.        *)
(***************************************************************************)
EXTENDS Integers, Sequences, FiniteSets, TLC

VARIABLES
    op,               \* which operation this behaviour is a call of
    pc,               \* position in the operation's code
    links,            \* search: page.query_selector_all(...), the anchors
    k,                \* search: index of the next anchor of links
    seen_ids,         \* search: seen_ids
    listings,         \* search: listings
    listing_id,       \* search: listing_id of the anchor being processed
    image_url,        \* search: image_url of the anchor being processed
    body_text,        \* details: page.inner_text('body')
    lines,            \* the normalized lines being scanned
    i,                \* index of the next line of the running loop
    title,
    price,
    location,
    description,      \* details
    condition,        \* details
    listed_date,      \* details
    details_idx,      \* details
    found_condition,  \* details, Phase B
    past_condition,   \* details, Phase B
    desc_lines,       \* details, Phase B
    result            \* details: the ListingDetails returned

vars == <<op, pc, links, k, seen_ids, listings, listing_id, image_url,
          body_text, lines, i, title, price, location, description,
          condition, listed_date, details_idx, found_condition,
          past_condition, desc_lines, result>>

searchVars == <<links, k, seen_ids, listings, listing_id, image_url>>

detailVars == <<body_text, description, condition, listed_date, details_idx,
                found_condition, past_condition, desc_lines, result>>

-----------------------------------------------------------------------------
(* Bounds of the inputs.                                                   *)

\* most physical lines in the inner text of the anchor of a one-anchor page
MaxLines == 3
\* most anchors on a search page
MaxAnchors == 3
\* most physical lines in the body text of a detail page
MaxBodyLines == 4
\* most physical lines in the body text of a detail page, specification PageSpec
MaxPageLines == 5

-----------------------------------------------------------------------------
(* Python values.                                                          *)

None == <<"<None>">>
NoIdx == -1
Empty == <<>>

At(s, n) == s[n + 1]

MinOf(S) == CHOOSE x \in S : \A y \in S : x <= y
MaxOf(S) == CHOOSE x \in S : \A y \in S : x >= y

\* x or default
Or(x, default) == IF x = None \/ x = Empty THEN default ELSE x

-----------------------------------------------------------------------------
(* Characters and literals of the source.                                  *)

Digits == {"0", "1", "2", "3", "4", "5", "6", "7", "8", "9"}
Currency == {"$", "£", "€"}
NumChars == Digits \cup {",", "."}
Whitespace == {" ", "\t", "\n"}

ItemPath == <<"/", "m", "a", "r", "k", "e", "t", "p", "l", "a", "c", "e", "/", "i", "t", "e", "m", "/">>
UrlPrefix == <<"h", "t", "t", "p", "s", ":", "/", "/", "w", "w", "w", ".", "f", "a", "c", "e", "b", "o", "o", "k", ".", "c", "o", "m", "/", "m", "a", "r", "k", "e", "t", "p", "l", "a", "c", "e", "/", "i", "t", "e", "m", "/">>
ListingPrefix == <<"L", "i", "s", "t", "i", "n", "g", " ">>
PriceNotListed == <<"P", "r", "i", "c", "e", " ", "n", "o", "t", " ", "l", "i", "s", "t", "e", "d">>
FreeWord == <<"f", "r", "e", "e">>
ListedSp == <<"L", "i", "s", "t", "e", "d", " ">>
ListedWord == <<"L", "i", "s", "t", "e", "d">>
AgoWord == <<"a", "g", "o">>
InSp == <<"i", "n", " ">>
ConditionWord == <<"C", "o", "n", "d", "i", "t", "i", "o", "n">>
DetailsWord == <<"D", "e", "t", "a", "i", "l", "s">>
LocationIsApproximate == <<"L", "o", "c", "a", "t", "i", "o", "n", " ", "i", "s", " ", "a", "p", "p", "r", "o", "x", "i", "m", "a", "t", "e">>
MessageWord == <<"M", "e", "s", "s", "a", "g", "e">>
SaveWord == <<"S", "a", "v", "e">>
ShareWord == <<"S", "h", "a", "r", "e">>
FacebookWord == <<"F", "a", "c", "e", "b", "o", "o", "k">>

-----------------------------------------------------------------------------
(* str methods.                                                            *)

AllIn(s, set) == \A n \in 1..Len(s) : s[n] \in set

\* s.startswith(p)
StartsWith(s, p) == Len(s) >= Len(p) /\ SubSeq(s, 1, Len(p)) = p

\* p in s
Contains(s, p) == \E n \in 0..(Len(s) - Len(p)) : SubSeq(s, n + 1, n + Len(p)) = p

LowerChar(c) ==
    CASE c = "F" -> "f" [] c = "R" -> "r" [] c = "E" -> "e"
      [] c = "B" -> "b" [] c = "H" -> "h" [] c = "L" -> "l"
      [] c = "U" -> "u" [] c = "K" -> "k" [] c = "D" -> "d"
      [] c = "C" -> "c" [] c = "G" -> "g" [] c = "M" -> "m"
      [] c = "S" -> "s" [] OTHER -> c

\* s.lower(), on the letters the inputs use
Lower(s) == [n \in 1..Len(s) |-> LowerChar(s[n])]

\* s.strip()
Strip(s) ==
    LET keep == {n \in 1..Len(s) : s[n] \notin Whitespace}
    IN  IF keep = {} THEN Empty ELSE SubSeq(s, MinOf(keep), MaxOf(keep))

RECURSIVE SplitNewline(_)
\* s.split('\n')
SplitNewline(s) ==
    LET nl == {n \in 1..Len(s) : s[n] = "\n"}
    IN  IF nl = {} THEN <<s>>
        ELSE <<SubSeq(s, 1, MinOf(nl) - 1)>>
                 \o SplitNewline(SubSeq(s, MinOf(nl) + 1, Len(s)))

RECURSIVE JoinNewline(_)
\* '\n'.join(ls)
JoinNewline(ls) ==
    IF ls = <<>> THEN Empty
    ELSE IF Len(ls) = 1 THEN ls[1]
    ELSE ls[1] \o <<"\n">> \o JoinNewline(Tail(ls))

NonEmpty(s) == s # Empty

\* [line.strip() for line in text.split('\n') if line.strip()]
Normalize(text) ==
    LET parts == SplitNewline(text)
    IN  SelectSeq([n \in 1..Len(parts) |-> Strip(parts[n])], NonEmpty)

-----------------------------------------------------------------------------
(* The regular expressions and line tests of the two scans.                *)

\* re.match(r'^[\$£€][\d,\.]+', line)
MatchSymbolThenNumber(line) ==
    Len(line) >= 2 /\ line[1] \in Currency /\ line[2] \in NumChars

\* re.match(r'^[\d,\.]+\s*[\$£€]', line)
MatchNumberThenSymbol(line) ==
    \E a \in 1..Len(line) : \E b \in a..(Len(line) - 1) :
        /\ AllIn(SubSeq(line, 1, a), NumChars)
        /\ AllIn(SubSeq(line, a + 1, b), Whitespace)
        /\ line[b + 1] \in Currency

\* line.lower() == 'free'
IsFree(line) == Lower(line) = FreeWord

\* the price test of _parse_listing_text
IsPrice(line) ==
    MatchSymbolThenNumber(line) \/ MatchNumberThenSymbol(line) \/ IsFree(line)

\* re.match(r'^\d+$', line)
IsBareNumber(line) == Len(line) >= 1 /\ AllIn(line, Digits)

\* re.match(r'^[\$£€][\d,\.]+$', line) or line.lower() == 'free'
IsDetailPrice(line) ==
    \/ Len(line) >= 2 /\ line[1] \in Currency /\ AllIn(Tail(line), NumChars)
    \/ IsFree(line)

\* re.match(r'^[\$£€]', line)
IsPricePrefixed(line) == Len(line) >= 1 /\ line[1] \in Currency

\* re.search(r'/marketplace/item/(\d+)', href): group(1), or None
ItemId(href) ==
    LET n == Len(ItemPath)
        starts == {p \in 1..(Len(href) - n) :
                      /\ SubSeq(href, p, p + n - 1) = ItemPath
                      /\ href[p + n] \in Digits}
    IN  IF starts = {} THEN None
        ELSE LET from == MinOf(starts) + n
                 stop == MinOf({q \in from..(Len(href) + 1) :
                                   q = Len(href) + 1 \/ href[q] \notin Digits})
             IN  SubSeq(href, from, stop - 1)

-----------------------------------------------------------------------------
(* _parse_listing_text: one iteration of "for line in lines".              *)

\* a variant of ParseLineStep: "if not price" is lost, the last price wins
ParseLineStep_LastPrice(st, line) ==
    IF IsPrice(line)
    THEN [st EXCEPT !.price = line]
    ELSE IF st.title = Empty /\ Len(line) > 2 /\ ~IsBareNumber(line)
    THEN [st EXCEPT !.title = line]
    ELSE IF st.title # Empty /\ st.location = Empty /\ Len(line) > 2
    THEN [st EXCEPT !.location = line]
    ELSE st

\* a variant of ParseLineStep: three flat branches, so that a price-shaped
\* line met after the price is set falls through to the later branches
ParseLineStep_FallThrough(st, line) ==
    IF IsPrice(line) /\ st.price = Empty
    THEN [st EXCEPT !.price = line]
    ELSE IF st.title = Empty /\ Len(line) > 2 /\ ~IsBareNumber(line)
            /\ ~IsPrice(line)
    THEN [st EXCEPT !.title = line]
    ELSE IF st.title # Empty /\ st.location = Empty /\ Len(line) > 2
    THEN [st EXCEPT !.location = line]
    ELSE st

ParseLineStep(st, line) ==
    IF IsPrice(line)
    THEN IF st.price = Empty THEN [st EXCEPT !.price = line] ELSE st
    ELSE IF st.title = Empty /\ Len(line) > 2 /\ ~IsBareNumber(line)
    THEN [st EXCEPT !.title = line]
    ELSE IF st.title # Empty /\ st.location = Empty /\ Len(line) > 2
    THEN [st EXCEPT !.location = line]
    ELSE st

RECURSIVE ParseLines(_, _)
ParseLines(st, ls) ==
    IF ls = <<>> THEN st ELSE ParseLines(ParseLineStep(st, Head(ls)), Tail(ls))

\* _parse_listing_text(all_text) as a whole
ParseListingText(all_text) ==
    ParseLines([title |-> Empty, price |-> Empty, location |-> Empty],
               Normalize(all_text))

-----------------------------------------------------------------------------
(* Inputs.                                                                 *)

SeqsUpTo(S, n) == UNION {[1..m -> S] : m \in 0..n}

\* physical lines an anchor's inner text is made of
AnchorLineVocab ==
    { <<"$", "4", "5">>,
      <<"F", "r", "e", "e">>,
      <<" ", "B", "i", "k", "e", " ">>,
      <<"H", "o", "v", "e">>,
      <<"1", "2", "3">>,
      <<"U", "K">>,
      <<"9", ",", "5", "0", " ", "€">> }

\* physical lines of the anchors of a page with several anchors
ShortLineVocab == { <<" ", "B", "i", "k", "e", " ">>, <<"$", "4", "5">> }

Href1 == <<"/", "m", "a", "r", "k", "e", "t", "p", "l", "a", "c", "e", "/", "i", "t", "e", "m", "/", "1", "/">>
Href22 == <<"/", "m", "a", "r", "k", "e", "t", "p", "l", "a", "c", "e", "/", "i", "t", "e", "m", "/", "2", "2", "?", "r", "e", "f", "=", "x">>
HrefX == <<"/", "m", "a", "r", "k", "e", "t", "p", "l", "a", "c", "e", "/", "i", "t", "e", "m", "/", "x">>

\* href attributes: two listings, one without digits, one absent
Hrefs == {Href1, Href22, HrefX, None}

ImgSrc == <<"i", ".", "j", "p", "g">>

TextsOf(vocab, n) == {JoinNewline(ls) : ls \in SeqsUpTo(vocab, n)}

\* a page with one anchor, any inner text of at most MaxLines lines
OneAnchorPages ==
    { << [href |-> h, text |-> t, img |-> g] >> :
        h \in Hrefs, t \in TextsOf(AnchorLineVocab, MaxLines), g \in {None, ImgSrc} }

\* a page with up to MaxAnchors anchors of at most one line each, no image
ManyAnchorPages ==
    SeqsUpTo([href : Hrefs, text : TextsOf(ShortLineVocab, 1), img : {None}],
             MaxAnchors)

SearchPages == OneAnchorPages \cup ManyAnchorPages

-----------------------------------------------------------------------------
(* extract_listings_from_page_async / extract_listings_from_page_sync.     *)

\* a variant of AlreadySeen: the membership test is lost
AlreadySeen_Never(id, seen) == FALSE

\* listing_id in seen_ids
AlreadySeen(id, seen) == id \in seen

\* if title or price
HasSignal(t, p) == t # Empty \/ p # Empty

\* a variant of MarketplaceListing: the "or" fallbacks are lost
MarketplaceListing_NoFallback(id, t, p, loc, img) ==
    [listing_id |-> id,
     title      |-> t,
     price      |-> p,
     location   |-> loc,
     url        |-> UrlPrefix \o id,
     image_url  |-> img]

\* MarketplaceListing(...)
MarketplaceListing(id, t, p, loc, img) ==
    [listing_id |-> id,
     title      |-> Or(t, ListingPrefix \o id),
     price      |-> Or(p, PriceNotListed),
     location   |-> loc,
     url        |-> UrlPrefix \o id,
     image_url  |-> img]

InitSearch ==
    /\ op = "search"
    /\ pc = "query"
    /\ links \in SearchPages
    /\ k = 0
    /\ seen_ids = {}
    /\ listings = <<>>
    /\ listing_id = None
    /\ image_url = None
    /\ body_text = Empty
    /\ lines = <<>>
    /\ i = 0
    /\ title = Empty
    /\ price = Empty
    /\ location = Empty
    /\ description = Empty
    /\ condition = None
    /\ listed_date = None
    /\ details_idx = NoIdx
    /\ found_condition = FALSE
    /\ past_condition = FALSE
    /\ desc_lines = <<>>
    /\ result = None

\* wait_for_selector raises when no anchor appears; else query_selector_all
QueryAnchors ==
    /\ op = "search" /\ pc = "query"
    /\ pc' = IF links = <<>> THEN "timeout" ELSE "loop"
    /\ UNCHANGED <<op, searchVars, lines, i, title, price, location, detailVars>>

\* one anchor of "for link in listing_links", up to the call of
\* _parse_listing_text
NextAnchor ==
    /\ op = "search" /\ pc = "loop" /\ k < Len(links)
    /\ LET link == At(links, k)
           href == Or(link.href, Empty)
           id   == ItemId(href)
       IN  IF id = None \/ AlreadySeen(id, seen_ids)
           THEN /\ k' = k + 1
                /\ UNCHANGED <<pc, seen_ids, listing_id, lines, i, title,
                               price, location>>
           ELSE /\ seen_ids' = seen_ids \cup {id}
                /\ listing_id' = id
                /\ lines' = Normalize(Strip(link.text))
                /\ i' = 0
                /\ title' = Empty
                /\ price' = Empty
                /\ location' = Empty
                /\ pc' = "parse"
                /\ UNCHANGED k
    /\ UNCHANGED <<op, links, listings, image_url, detailVars>>

\* one line of the scan of _parse_listing_text
ParseLine ==
    /\ op = "search" /\ pc = "parse" /\ i < Len(lines)
    /\ LET st == ParseLineStep([title |-> title, price |-> price,
                                location |-> location], At(lines, i))
       IN  /\ title' = st.title
           /\ price' = st.price
           /\ location' = st.location
    /\ i' = i + 1
    /\ UNCHANGED <<op, pc, searchVars, lines, detailVars>>

\* the rest of the loop body: the image, and the record if there is a signal
Emit ==
    /\ op = "search" /\ pc = "parse" /\ i = Len(lines)
    /\ image_url' = At(links, k).img
    /\ listings' = IF HasSignal(title, price)
                   THEN Append(listings,
                               MarketplaceListing(listing_id, title, price,
                                                  location, image_url'))
                   ELSE listings
    /\ k' = k + 1
    /\ pc' = "loop"
    /\ UNCHANGED <<op, links, seen_ids, listing_id, lines, i, title, price,
                   location, detailVars>>

\* return listings
ReturnListings ==
    /\ op = "search" /\ pc = "loop" /\ k = Len(links)
    /\ pc' = "done"
    /\ UNCHANGED <<op, searchVars, lines, i, title, price, location, detailVars>>

NextSearch == QueryAnchors \/ NextAnchor \/ ParseLine \/ Emit \/ ReturnListings

-----------------------------------------------------------------------------
(* get_listing_details_async: the parsing of the body text.                *)

\* min(details_idx + 20, len(lines)): the number added to details_idx
WindowSpan == 20

\* the listing_id argument
ArgListingId == <<"7">>

\* physical lines a detail page's body text is made of
BodyLineVocab ==
    { DetailsWord,
      ConditionWord,
      LocationIsApproximate,
      <<"$", "4", "5">>,
      <<"F", "r", "e", "e">>,
      <<"L", "i", "s", "t", "e", "d", " ", "2", " ", "d", "a", "y", "s", " ", "a", "g", "o">>,
      <<"L", "i", "s", "t", "e", "d", " ", "i", "n", " ", "H", "o", "v", "e">>,
      <<" ", "B", "r", "i", "g", "h", "t", "o", "n", ",", " ", "U", "K", " ">> }

Terminators == {MessageWord, SaveWord, ShareWord, LocationIsApproximate}

\* if re.match(r'^[\$£€][\d,\.]+$', line) or line.lower() == 'free':
\*     if not price: price = line
PriceAfter(p, line) == IF IsDetailPrice(line) /\ p = Empty THEN line ELSE p

\* line.startswith('Listed ') and ('ago' in line or 'in ' in line)
IsListedDate(line) ==
    StartsWith(line, ListedSp) /\ (Contains(line, AgoWord) \/ Contains(line, InSp))

\* if <listed date line>: listed_date = line
ListedDateAfter(ld, line) == IF IsListedDate(line) THEN line ELSE ld

\* if line.startswith('Condition'): if i + 1 < len(lines): condition = lines[i + 1]
ConditionAfter(c, ls, n) ==
    IF StartsWith(At(ls, n), ConditionWord) /\ n + 1 < Len(ls)
    THEN At(ls, n + 1) ELSE c

\* range(i - 1, max(0, i - 5), -1), as a set
BackwardRange(n) ==
    LET stop == IF n - 5 > 0 THEN n - 5 ELSE 0
    IN  {j \in 0..(n - 1) : j > stop}

\* lines[j] and not lines[j].startswith('Listed') and len(lines[j]) > 3
IsLocationCandidate(line) ==
    line # Empty /\ ~StartsWith(line, ListedWord) /\ Len(line) > 3

\* if 'Location is approximate' in line and i > 0:
\*     for j in range(...): if <candidate>: location = lines[j]; break
LocationAfter(loc, ls, n) ==
    IF Contains(At(ls, n), LocationIsApproximate) /\ n > 0
    THEN LET cands == {j \in BackwardRange(n) : IsLocationCandidate(At(ls, j))}
         IN  IF cands = {} THEN loc ELSE At(ls, MaxOf(cands))
    ELSE loc

\* the first i with lines[i] == 'Details', or None
FindDetailsIdx(ls) ==
    LET hits == {n \in 0..(Len(ls) - 1) : At(ls, n) = DetailsWord}
    IN  IF hits = {} THEN NoIdx ELSE MinOf(hits)

\* if details_idx: (None and 0 are both false)
Truthy(idx) == idx # NoIdx /\ idx # 0

\* min(details_idx + 20, len(lines))
WindowEnd(idx, ls) ==
    IF idx + WindowSpan < Len(ls) THEN idx + WindowSpan ELSE Len(ls)

\* one iteration of the Phase B loop on line; stop is the break
PhaseBStep(st, line) ==
    IF line = ConditionWord
    THEN [st EXCEPT !.found_condition = TRUE]
    ELSE IF st.found_condition /\ ~st.past_condition
    THEN [st EXCEPT !.condition = line, !.past_condition = TRUE]
    ELSE IF line \in Terminators
    THEN [st EXCEPT !.stop = TRUE]
    ELSE IF st.past_condition /\ st.title = Empty /\ Len(line) > 5
            /\ ~IsPricePrefixed(line)
    THEN [st EXCEPT !.title = line]
    ELSE IF st.title # Empty /\ line # st.title /\ Len(line) > 2
            /\ line # st.condition
    THEN [st EXCEPT !.desc_lines = Append(st.desc_lines, line)]
    ELSE st

\* len(line) > 10 and not re.match(r'^[\$£€]', line) and 'Facebook' not in line
IsFallbackTitle(line) ==
    Len(line) > 10 /\ ~IsPricePrefixed(line) /\ ~Contains(line, FacebookWord)

\* if not title: for line in lines: if <fallback title>: title = line; break
FallbackTitle(t, ls) ==
    LET hits == {n \in 0..(Len(ls) - 1) : IsFallbackTitle(At(ls, n))}
    IN  IF t = Empty /\ hits # {} THEN At(ls, MinOf(hits)) ELSE t

DetailPages(n) == TextsOf(BodyLineVocab, n)

InitDetailsOf(n) ==
    /\ op = "details"
    /\ pc = "body"
    /\ links = <<>>
    /\ k = 0
    /\ seen_ids = {}
    /\ listings = <<>>
    /\ listing_id = ArgListingId
    /\ image_url = None
    /\ body_text \in DetailPages(n)
    /\ lines = <<>>
    /\ i = 0
    /\ title = Empty
    /\ price = Empty
    /\ location = Empty
    /\ description = Empty
    /\ condition = None
    /\ listed_date = None
    /\ details_idx = NoIdx
    /\ found_condition = FALSE
    /\ past_condition = FALSE
    /\ desc_lines = <<>>
    /\ result = None

\* body_text = page.inner_text('body'); lines = [...]; the fields' first values
ReadBody ==
    /\ op = "details" /\ pc = "body"
    /\ lines' = Normalize(body_text)
    /\ i' = 0
    /\ title' = Empty
    /\ price' = Empty
    /\ location' = Empty
    /\ description' = Empty
    /\ condition' = None
    /\ listed_date' = None
    /\ pc' = "phaseA"
    /\ UNCHANGED <<op, searchVars, body_text, details_idx, found_condition,
                   past_condition, desc_lines, result>>

\* one iteration of "for i, line in enumerate(lines)" (Phase A)
PhaseALine ==
    /\ op = "details" /\ pc = "phaseA" /\ i < Len(lines)
    /\ price' = PriceAfter(price, At(lines, i))
    /\ listed_date' = ListedDateAfter(listed_date, At(lines, i))
    /\ condition' = ConditionAfter(condition, lines, i)
    /\ location' = LocationAfter(location, lines, i)
    /\ i' = i + 1
    /\ UNCHANGED <<op, pc, searchVars, body_text, lines, title, description,
                   details_idx, found_condition, past_condition, desc_lines,
                   result>>

\* the search for 'Details' and "if details_idx:", up to the Phase B loop
FindDetails ==
    /\ op = "details" /\ pc = "phaseA" /\ i = Len(lines)
    /\ details_idx' = FindDetailsIdx(lines)
    /\ IF Truthy(details_idx')
       THEN /\ found_condition' = FALSE
            /\ past_condition' = FALSE
            /\ desc_lines' = <<>>
            /\ i' = details_idx' + 1
            /\ pc' = "phaseB"
       ELSE /\ pc' = "fallback"
            /\ UNCHANGED <<found_condition, past_condition, desc_lines, i>>
    /\ UNCHANGED <<op, searchVars, body_text, lines, title, price, location,
                   description, condition, listed_date, result>>

\* one iteration of the Phase B loop; on break, the join of desc_lines
PhaseBLine ==
    /\ op = "details" /\ pc = "phaseB" /\ i < WindowEnd(details_idx, lines)
    /\ LET st == PhaseBStep([found_condition |-> found_condition,
                             past_condition |-> past_condition,
                             condition |-> condition,
                             title |-> title,
                             desc_lines |-> desc_lines,
                             stop |-> FALSE], At(lines, i))
       IN  /\ found_condition' = st.found_condition
           /\ past_condition' = st.past_condition
           /\ condition' = st.condition
           /\ title' = st.title
           /\ desc_lines' = st.desc_lines
           /\ IF st.stop
              THEN /\ description' = JoinNewline(desc_lines)
                   /\ pc' = "fallback"
                   /\ UNCHANGED i
              ELSE /\ i' = i + 1
                   /\ UNCHANGED <<pc, description>>
    /\ UNCHANGED <<op, searchVars, body_text, lines, price, location,
                   listed_date, details_idx, result>>

\* the Phase B loop runs out of lines: the join of desc_lines
PhaseBEnd ==
    /\ op = "details" /\ pc = "phaseB" /\ i >= WindowEnd(details_idx, lines)
    /\ description' = JoinNewline(desc_lines)
    /\ pc' = "fallback"
    /\ UNCHANGED <<op, searchVars, body_text, lines, i, title, price, location,
                   condition, listed_date, details_idx, found_condition,
                   past_condition, desc_lines, result>>

\* the all-lines fallback for the title
Fallback ==
    /\ op = "details" /\ pc = "fallback"
    /\ title' = FallbackTitle(title, lines)
    /\ pc' = "return"
    /\ UNCHANGED <<op, searchVars, body_text, lines, i, price, location,
                   description, condition, listed_date, details_idx,
                   found_condition, past_condition, desc_lines, result>>

\* return ListingDetails(...)
ReturnDetails ==
    /\ op = "details" /\ pc = "return"
    /\ result' = [listing_id  |-> listing_id,
                  title       |-> title,
                  price       |-> price,
                  location    |-> location,
                  description |-> description,
                  condition   |-> condition,
                  listed_date |-> listed_date,
                  url         |-> UrlPrefix \o listing_id]
    /\ pc' = "done"
    /\ UNCHANGED <<op, searchVars, body_text, lines, i, title, price, location,
                   description, condition, listed_date, details_idx,
                   found_condition, past_condition, desc_lines>>

NextDetails ==
    ReadBody \/ PhaseALine \/ FindDetails \/ PhaseBLine \/ PhaseBEnd
        \/ Fallback \/ ReturnDetails

-----------------------------------------------------------------------------
(* Specifications.                                                         *)

\* one call of either operation
Init == InitSearch \/ InitDetailsOf(MaxBodyLines)

Next == NextSearch \/ NextDetails

Spec == Init /\ [][Next]_vars

\* one call of get_listing_details_async on a page of up to MaxPageLines lines
InitPage == InitDetailsOf(MaxPageLines)

PageSpec == InitPage /\ [][NextDetails]_vars

-----------------------------------------------------------------------------
(* Vocabulary of the properties.                                           *)

IdsOf(recs) == [n \in 1..Len(recs) |-> recs[n].listing_id]

NoDuplicates(s) == \A a, b \in 1..Len(s) : a # b => s[a] # s[b]

IsResolved(id) == id # None

\* the identifiers the anchors resolve to, in anchor order
ResolvedIds(ls) ==
    SelectSeq([n \in 1..Len(ls) |-> ItemId(Or(ls[n].href, Empty))], IsResolved)

\* s without the later occurrences of each element
FirstSeen(s) ==
    LET firsts == {n \in 1..Len(s) : \A m \in 1..(n - 1) : s[m] # s[n]}
        nth(j) == CHOOSE n \in firsts : Cardinality({m \in firsts : m < n}) = j - 1
    IN  [j \in 1..Cardinality(firsts) |-> s[nth(j)]]

RECURSIVE IsSubsequence(_, _)
IsSubsequence(s, t) ==
    IF s = <<>> THEN TRUE
    ELSE IF t = <<>> THEN FALSE
    ELSE IF Head(s) = Head(t) THEN IsSubsequence(Tail(s), Tail(t))
    ELSE IsSubsequence(s, Tail(t))

\* the first anchor of ls that resolves to id
FirstAnchorOf(ls, id) ==
    ls[MinOf({n \in 1..Len(ls) : ItemId(Or(ls[n].href, Empty)) = id})]

\* the first line of ls that passes Test, or the empty str
FirstLine(ls, Test(_)) ==
    LET hits == {n \in 1..Len(ls) : Test(ls[n])}
    IN  IF hits = {} THEN Empty ELSE ls[MinOf(hits)]

LooksLikeTitle(line) == ~IsPrice(line) /\ ~IsBareNumber(line) /\ Len(line) > 2

\* the step about to be taken is an iteration of the scan of _parse_listing_text
AtParseLine == op = "search" /\ pc = "parse" /\ i < Len(lines)

\* the step about to be taken is an iteration of Phase A
AtPhaseALine == op = "details" /\ pc = "phaseA" /\ i < Len(lines)

\* the step about to be taken is an iteration of the Phase B loop
AtPhaseBLine ==
    op = "details" /\ pc = "phaseB" /\ i < WindowEnd(details_idx, lines)

-----------------------------------------------------------------------------
(* C1.  The emitted list never holds two records with the same listing     *)
(* identifier, and the records are in the order in which their identifiers *)
(* were first seen among the anchors.                                      *)

C1_UniqueInFirstSeenOrder ==
    /\ NoDuplicates(IdsOf(listings))
    /\ IsSubsequence(IdsOf(listings), FirstSeen(ResolvedIds(links)))

\* a finished pass over three resolved anchors, one a repeat, two records
C1_Witness ==
    /\ op = "search" /\ pc = "done"
    /\ Len(ResolvedIds(links)) = 3
    /\ Len(FirstSeen(ResolvedIds(links))) = 2
    /\ Len(listings) = 2

-----------------------------------------------------------------------------
(* C2.  Every emitted record has a non-empty title and a non-empty price:  *)
(* its anchor's scan classified a title or a price, a title the scan left  *)
(* empty is "Listing {identifier}", a price it left empty is "Price not    *)
(* listed", and a classified title or price is kept as classified.         *)

C2_NonEmptyTitleAndPrice ==
    \A n \in 1..Len(listings) :
        LET r  == listings[n]
            st == ParseListingText(Strip(FirstAnchorOf(links, r.listing_id).text))
        IN  /\ r.title # Empty
            /\ r.price # Empty
            /\ st.title # Empty \/ st.price # Empty
            /\ r.title = IF st.title = Empty THEN ListingPrefix \o r.listing_id
                         ELSE st.title
            /\ r.price = IF st.price = Empty THEN PriceNotListed ELSE st.price

\* a finished pass that emitted a record with the placeholder title and a
\* record with the placeholder price
C2_Witness ==
    /\ op = "search" /\ pc = "done"
    /\ \E n \in 1..Len(listings) :
           listings[n].title = ListingPrefix \o listings[n].listing_id
    /\ \E n \in 1..Len(listings) :
           /\ listings[n].price = PriceNotListed
           /\ listings[n].title # ListingPrefix \o listings[n].listing_id

-----------------------------------------------------------------------------
(* C3.  Within one single-record pass (the scan of one anchor's text; the  *)
(* Phase A, Phase B and fallback scans of one detail page) a price or      *)
(* title, once set, is not changed by any later line, and it is set from   *)
(* the line being scanned; at the end the price is the first price line,   *)
(* the summary title the first title-like line, and a title found only by  *)
(* the fallback the first fallback line.                                   *)

InRecordPass ==
    \/ op = "search" /\ pc = "parse"
    \/ op = "details" /\ pc \in {"phaseA", "phaseB", "fallback", "return"}

C3_Step ==
    InRecordPass =>
        /\ price # Empty => price' = price
        /\ title # Empty => title' = title
        /\ price' # price => i < Len(lines) /\ price' = At(lines, i)
        /\ title' # title =>
               IF pc = "fallback" THEN title' = FirstLine(lines, IsFallbackTitle)
               ELSE i < Len(lines) /\ title' = At(lines, i)

C3_Final ==
    /\ op = "search" /\ pc = "parse" /\ i = Len(lines) =>
           /\ price = FirstLine(lines, IsPrice)
           /\ title = FirstLine(lines, LooksLikeTitle)
    /\ op = "details" /\ pc \in {"return", "done"} =>
           /\ price = FirstLine(lines, IsDetailPrice)
           /\ title # Empty \/ FirstLine(lines, IsFallbackTitle) = Empty
    /\ op = "details" /\ pc = "done" =>
           /\ result.price = price
           /\ result.title = title

-----------------------------------------------------------------------------
(* C4.  When a line at index i >= 1 contains "Location is approximate",    *)
(* the location becomes the closest of the up to 4 lines before it         *)
(* (indices i-1 down to max(0, i-4), index 0 included) that does not start *)
(* with "Listed" and is longer than 3 characters.                          *)

C4_Candidates(n) ==
    {j \in 0..(n - 1) :
        /\ j >= n - 4
        /\ ~StartsWith(At(lines, j), ListedWord)
        /\ Len(At(lines, j)) > 3}

C4_Step ==
    AtPhaseALine /\ i >= 1 /\ Contains(At(lines, i), LocationIsApproximate)
        /\ C4_Candidates(i) # {}
    => location' = At(lines, MaxOf(C4_Candidates(i)))

C4_ClosestOfFourBefore == [][C4_Step]_vars

-----------------------------------------------------------------------------
(* C5.  On a page whose first "Details" line is followed by "Condition", a *)
(* condition value c, a line t longer than 5 characters that is not        *)
(* price-prefixed, and lines d up to a terminator line, the result has     *)
(* condition c, title t and a description containing each d, wherever      *)
(* else the page has a price line.                                         *)

\* the index of "Details" when the page has the shape, else NoIdx
C5_Shape ==
    LET p == FindDetailsIdx(lines)
    IN  IF /\ p # NoIdx
           /\ p + 4 <= Len(lines) - 1
           /\ At(lines, p + 1) = ConditionWord
           /\ At(lines, p + 2) # ConditionWord
           /\ Len(At(lines, p + 3)) > 5
           /\ ~IsPricePrefixed(At(lines, p + 3))
           /\ At(lines, p + 3) \notin Terminators \cup {ConditionWord}
           /\ \E q \in (p + 4)..(Len(lines) - 1) : At(lines, q) \in Terminators
        THEN p ELSE NoIdx

C5_DetailsSectionParsed ==
    op = "details" /\ pc = "done" /\ C5_Shape # NoIdx =>
        LET p == C5_Shape
            q == MinOf({n \in (p + 4)..(Len(lines) - 1) : At(lines, n) \in Terminators})
        IN  /\ result.condition = At(lines, p + 2)
            /\ result.title = At(lines, p + 3)
            /\ \A n \in (p + 4)..(q - 1) :
                   (/\ Len(At(lines, n)) > 2
                    /\ At(lines, n) \notin {At(lines, p + 2), At(lines, p + 3),
                                            ConditionWord})
                   => Contains(result.description, At(lines, n))

-----------------------------------------------------------------------------
(* C6.  An anchor is skipped as a duplicate only when an earlier anchor    *)
(* with its identifier emitted a record: so at the end of the pass every   *)
(* identifier that some anchor carries with a text that yields a title or  *)
(* a price has a record.                                                   *)

C6_SignalAnchorsHaveRecord ==
    op = "search" /\ pc = "done" =>
        \A n \in 1..Len(links) :
            LET id == ItemId(Or(links[n].href, Empty))
                st == ParseListingText(Strip(links[n].text))
            IN  id # None /\ (st.title # Empty \/ st.price # Empty)
                => \E m \in 1..Len(listings) : listings[m].listing_id = id

-----------------------------------------------------------------------------
(* C7.  The scan of _parse_listing_text gives each line its role by the    *)
(* three-way rule: the price if the price is unset and the line is a       *)
(* price; else the title if the title is unset and the line looks like a   *)
(* title; else the location if the title is set, the location unset and    *)
(* the line longer than 2 characters.                                      *)

C7_TakesPrice == price = Empty /\ IsPrice(At(lines, i))

C7_TakesTitle ==
    ~C7_TakesPrice /\ title = Empty /\ LooksLikeTitle(At(lines, i))

\* as claimed: a price-shaped line met after the price is set can be the
\* location
C7_OriginalStep ==
    AtParseLine =>
        /\ price' = IF C7_TakesPrice THEN At(lines, i) ELSE price
        /\ title' = IF C7_TakesTitle THEN At(lines, i) ELSE title
        /\ location' = IF /\ ~C7_TakesPrice /\ ~C7_TakesTitle
                          /\ title # Empty /\ location = Empty
                          /\ Len(At(lines, i)) > 2
                       THEN At(lines, i) ELSE location

C7_ThreeWayRule == [][C7_OriginalStep]_vars

\* as amended: a price-shaped line is the price or nothing
C7_AmendedStep ==
    AtParseLine =>
        /\ price' = IF C7_TakesPrice THEN At(lines, i) ELSE price
        /\ title' = IF C7_TakesTitle THEN At(lines, i) ELSE title
        /\ location' = IF /\ ~IsPrice(At(lines, i)) /\ ~C7_TakesTitle
                          /\ title # Empty /\ location = Empty
                          /\ Len(At(lines, i)) > 2
                       THEN At(lines, i) ELSE location

C7_PriceLinesAreNeverLocation == [][C7_AmendedStep]_vars

\* the scan has just passed a price-shaped line that it met with price and
\* title set and location unset, and the location is still unset
C7_Witness ==
    /\ op = "search" /\ pc = "parse" /\ i >= 3
    /\ IsPrice(At(lines, i - 1))
    /\ At(lines, i - 1) # price
    /\ price # Empty /\ title # Empty /\ location = Empty
    /\ Len(At(lines, i - 1)) > 2

-----------------------------------------------------------------------------
(* C8.  The listed date of the result is the first line, in scan order,    *)
(* that starts with "Listed " and contains "ago" or "in "; None when there *)
(* is no such line.                                                        *)

C8_FirstListedDateWins ==
    op = "details" /\ pc = "done" =>
        result.listed_date =
            IF FirstLine(lines, IsListedDate) = Empty THEN None
            ELSE FirstLine(lines, IsListedDate)

-----------------------------------------------------------------------------
(* C9.  Phase B runs whenever some line is exactly "Details", from the     *)
(* line after the first such line, at whatever index that line is; it is   *)
(* skipped only when no line is "Details".                                 *)

C9_HasDetails == \E n \in 0..(Len(lines) - 1) : At(lines, n) = DetailsWord

C9_Step ==
    op = "details" /\ pc = "phaseA" /\ i = Len(lines) =>
        IF C9_HasDetails
        THEN pc' = "phaseB" /\ i' = FindDetailsIdx(lines) + 1
        ELSE pc' = "fallback"

C9_PhaseBRunsAtAnyIndex == [][C9_Step]_vars

-----------------------------------------------------------------------------
(* C10.  A terminator line met by the Phase B loop, in whichever of its    *)
(* four states, ends the loop, and is not itself captured as condition,    *)
(* title or description.                                                   *)

C10_Step ==
    AtPhaseBLine /\ At(lines, i) \in Terminators =>
        /\ pc' = "fallback"
        /\ condition' = condition
        /\ title' = title
        /\ desc_lines' = desc_lines

C10_TerminatorStopsInAnyState == [][C10_Step]_vars

-----------------------------------------------------------------------------
(* Long detail pages: one line, "Details", then a tail of filler lines in  *)
(* which up to two chosen places hold "Condition" and one other line.      *)

\* most lines after "Details" on a long page, specification WindowSpec
MaxTailLines == 22

FillerLine == <<"H", "o", "v", "e">>

\* the lines a place of the tail can hold instead of the filler
TailMarks == { <<"B", "r", "i", "g", "h", "t", "o", "n", ",", " ", "U", "K">>,
               MessageWord }

\* tails of n lines: "Condition" at place a, x at place b (0: nowhere)
TailsOf(n) ==
    { [j \in 1..n |-> IF j = a THEN ConditionWord
                      ELSE IF j = b THEN x ELSE FillerLine] :
        a \in 0..n, b \in 0..n, x \in TailMarks }

WindowPages ==
    { JoinNewline(<< <<"$", "4", "5">>, DetailsWord >> \o tail) :
        tail \in UNION {TailsOf(n) : n \in 0..MaxTailLines} }

InitWindow ==
    /\ op = "details"
    /\ pc = "body"
    /\ links = <<>>
    /\ k = 0
    /\ seen_ids = {}
    /\ listings = <<>>
    /\ listing_id = ArgListingId
    /\ image_url = None
    /\ body_text \in WindowPages
    /\ lines = <<>>
    /\ i = 0
    /\ title = Empty
    /\ price = Empty
    /\ location = Empty
    /\ description = Empty
    /\ condition = None
    /\ listed_date = None
    /\ details_idx = NoIdx
    /\ found_condition = FALSE
    /\ past_condition = FALSE
    /\ desc_lines = <<>>
    /\ result = None

\* one call of get_listing_details_async on a long page
WindowSpec == InitWindow /\ [][NextDetails]_vars

-----------------------------------------------------------------------------
(* C11.  The Phase B window is the next 20 lines after the "Details" line  *)
(* (indices details_idx+1 to details_idx+20), or all the lines left if     *)
(* fewer: short of a terminator the loop goes on through the 20th line     *)
(* after the marker, which it examines, and it ends before the 21st.       *)

C11_Step ==
    op = "details" /\ pc = "phaseB" /\ i < Len(lines) =>
        IF i <= details_idx + 20
        THEN At(lines, i) \notin Terminators => pc' = "phaseB" /\ i' = i + 1
        ELSE pc' = "fallback" /\ desc_lines' = desc_lines /\ title' = title
                 /\ condition' = condition

C11_WindowOfTwentyLines == [][C11_Step]_vars

=============================================================================
